---------------------------- MODULE Spec2Model ----------------------------
(***************************************************************************)
(* A model of equation_solver.py: solve_equation and parse_expression.     *)
(*                                                                         *)
(* A Python str is a sequence of one-character strings.  Every call of     *)
(* solve_equation is a process with its own program counter and its own    *)
(* locals; parse_expression's locals (expr, i, sign, term, x_coeff,        *)
(* constant) are the record frame[c].  The index i is 0-based as in the    *)
(* source, so the source's expr[i] is expr[i + 1] here.                    *)
(***************************************************************************)
EXTENDS Integers, Sequences, FiniteSets, TLC

(***************************************************************************)
(* Bounds of the model.                                                    *)
(***************************************************************************)
\* Every string over Alphabet of at most this length is an input.
MaxLen == 4
\* Left sides of the generated well-formed equations have at most this many terms.
MaxTerms == 3
\* The same two bounds for the inputs of the runs checked for termination.
FairMaxLen == 3
FairMaxTerms == 1

Callers == {1, 2}

Digits == {"0", "1", "2", "3", "4", "5", "6", "7", "8", "9"}
Signs == {"+", "-"}
\* The whitespace characters of the model: the space and the tab.
Whitespace == {" ", "\t"}
\* The characters of the exhaustively enumerated short inputs: the variable,
\* two digits, both signs, '=', a space, a tab and a stray letter.
Alphabet == {"x", "0", "2", "+", "-", "=", " ", "\t", "a"}

(***************************************************************************)
(* Python's built-ins, as the code uses them.                              *)
(***************************************************************************)
RECURSIVE Join(_)
\* The concatenation of a sequence of strings.
Join(ss) == IF ss = <<>> THEN <<>> ELSE Head(ss) \o Join(Tail(ss))

\* ch in s, for a one-character ch.
Contains(s, ch) == \E j \in 1..Len(s) : s[j] = ch

RECURSIVE ReplaceFirstOnly(_, _)
\* A replace that stops after the first occurrence (str.replace(old, '', 1)).
ReplaceFirstOnly(s, ch) ==
    IF s = <<>> THEN <<>>
    ELSE IF Head(s) = ch THEN Tail(s)
    ELSE <<Head(s)>> \o ReplaceFirstOnly(Tail(s), ch)

RECURSIVE Replace(_, _)
\* s.replace(ch, ''): every occurrence of the character ch removed, left to right.
Replace(s, ch) ==
    IF s = <<>> THEN <<>>
    ELSE IF Head(s) = ch THEN Replace(Tail(s), ch)
    ELSE <<Head(s)>> \o Replace(Tail(s), ch)

RECURSIVE SplitFirstOnly(_, _)
\* A split that cuts at the first separator only (str.split(sep, 1)).
SplitFirstOnly(s, sep) ==
    IF s = <<>> THEN << <<>> >>
    ELSE IF Head(s) = sep THEN << <<>>, Tail(s) >>
    ELSE LET rest == SplitFirstOnly(Tail(s), sep)
         IN  << <<Head(s)>> \o Head(rest) >> \o Tail(rest)

RECURSIVE Split(_, _)
\* s.split(sep): the pieces of s between the occurrences of the character sep;
\* n occurrences give n + 1 pieces, empty pieces included.
Split(s, sep) ==
    IF s = <<>> THEN << <<>> >>
    ELSE LET rest == Split(Tail(s), sep)
         IN  IF Head(s) = sep THEN << <<>> >> \o rest
             ELSE << <<Head(s)>> \o Head(rest) >> \o Tail(rest)

RECURSIVE LStrip(_)
LStrip(s) == IF s # <<>> /\ Head(s) \in Whitespace THEN LStrip(Tail(s)) ELSE s

RECURSIVE RStrip(_)
RStrip(s) ==
    IF s # <<>> /\ s[Len(s)] \in Whitespace THEN RStrip(SubSeq(s, 1, Len(s) - 1)) ELSE s

\* s.strip(), which int() applies to its argument.
Strip(s) == RStrip(LStrip(s))

DigitValue(d) ==
    CASE d = "0" -> 0 [] d = "1" -> 1 [] d = "2" -> 2 [] d = "3" -> 3 [] d = "4" -> 4
      [] d = "5" -> 5 [] d = "6" -> 6 [] d = "7" -> 7 [] d = "8" -> 8 [] d = "9" -> 9

RECURSIVE DecimalValue(_)
\* The value of a string of digits, most significant first.
DecimalValue(ds) ==
    IF ds = <<>> THEN 0
    ELSE 10 * DecimalValue(SubSeq(ds, 1, Len(ds) - 1)) + DigitValue(ds[Len(ds)])

\* The digits of int()'s argument: surrounding whitespace and one sign dropped.
IntDigits(s) ==
    LET t == Strip(s)
    IN  IF t # <<>> /\ Head(t) \in Signs THEN Tail(t) ELSE t

\* int(s) raises ValueError unless s is, within whitespace, an optional sign and
\* one or more digits.
IntRaises(s) ==
    LET ds == IntDigits(s)
    IN  ds = <<>> \/ \E j \in 1..Len(ds) : ds[j] \notin Digits

\* int(s), where it does not raise.
IntValue(s) ==
    LET t == Strip(s)
        v == DecimalValue(IntDigits(s))
    IN  IF t # <<>> /\ Head(t) = "-" THEN 0 - v ELSE v

DigitChar(n) ==
    CASE n = 0 -> "0" [] n = 1 -> "1" [] n = 2 -> "2" [] n = 3 -> "3" [] n = 4 -> "4"
      [] n = 5 -> "5" [] n = 6 -> "6" [] n = 7 -> "7" [] n = 8 -> "8" [] n = 9 -> "9"

RECURSIVE FormatNat(_)
FormatNat(n) == IF n < 10 THEN <<DigitChar(n)>> ELSE FormatNat(n \div 10) \o <<DigitChar(n % 10)>>

\* str(v) of an int, as the f-string's {x_value} renders it.
FormatInt(v) == IF v < 0 THEN <<"-">> \o FormatNat(0 - v) ELSE FormatNat(v)

\* A division that truncates toward zero, as C's and Java's / does.
TruncDiv(a, b) ==
    LET abs(n) == IF n < 0 THEN 0 - n ELSE n
        q == abs(a) \div abs(b)
    IN  IF (a < 0) = (b < 0) THEN q ELSE 0 - q

\* Python's a // b on ints: the floor of a / b.
FloorDiv(a, b) == a \div b

InfiniteSolutions ==
    <<"I", "n", "f", "i", "n", "i", "t", "e", " ", "s", "o", "l", "u", "t", "i", "o", "n", "s">>
NoSolution == <<"N", "o", " ", "s", "o", "l", "u", "t", "i", "o", "n">>
\* f"x={x_value}"
XEquals(x_value) == <<"x", "=">> \o FormatInt(x_value)


(***************************************************************************)
(* parse_expression, one step at a time, on its frame of locals.           *)
(***************************************************************************)
\* Lines 62-64 with only the first space removed.
NewFrameFirstSpace(arg) ==
    [expr |-> ReplaceFirstOnly(arg, " "), x_coeff |-> 0, constant |-> 0,
     i |-> 0, sign |-> 0, term |-> <<>>]

\* Lines 62-64: spaces removed from the argument, both accumulators zero.  i,
\* sign and term are not bound yet; they hold placeholders nothing reads.
NewFrame(arg) ==
    [expr |-> Replace(arg, " "), x_coeff |-> 0, constant |-> 0,
     i |-> 0, sign |-> 0, term |-> <<>>]

\* Line 67 reads expr[0], which raises IndexError on an empty string.
PrependRaises(f) == f.expr = <<>>

\* Lines 67-70: a leading '+' is added unless the expression starts with a sign.
PrependF(f) ==
    [f EXCEPT !.expr = IF f.expr[1] \notin Signs THEN <<"+">> \o f.expr ELSE f.expr,
              !.i = 0]

\* Line 71: while i < len(expr)
LoopGuard(f) == f.i < Len(f.expr)

\* Lines 73-77 with the index left where it is.
ReadSignStuck(f) ==
    [f EXCEPT !.sign = IF f.expr[f.i + 1] = "+" THEN 1 ELSE -1,
              !.term = <<>>]

\* Lines 73-77: the sign is read, the index moves past it, the term starts empty.
ReadSignF(f) ==
    [f EXCEPT !.sign = IF f.expr[f.i + 1] = "+" THEN 1 ELSE -1,
              !.i = f.i + 1,
              !.term = <<>>]

\* An inner loop that stops at '+' only.
ScanGuardPlusOnly(f) == f.i < Len(f.expr) /\ f.expr[f.i + 1] # "+"

\* Line 78: while i < len(expr) and expr[i] not in ['+', '-']
ScanGuard(f) == f.i < Len(f.expr) /\ f.expr[f.i + 1] \notin Signs

\* Lines 79-80: one character joins the term.
ScanCharF(f) ==
    [f EXCEPT !.term = f.term \o <<f.expr[f.i + 1]>>,
              !.i = f.i + 1]

\* Line 85: coeff_str = term.replace('x', '')
CoeffStr(term) == Replace(term, "x")

\* Lines 86-91, where int() is reached: the coefficient strings it is given.
CoeffNeedsInt(term) == CoeffStr(term) \notin {<<>>, <<"+">>, <<"-">>}

\* Lines 83-96: whether processing the term raises ValueError (int() at line 91
\* or at line 96).
TermRaises(term) ==
    IF Contains(term, "x")
    THEN CoeffNeedsInt(term) /\ IntRaises(CoeffStr(term))
    ELSE term # <<>> /\ IntRaises(term)

\* Lines 86-91: the coefficient of a variable term.
Coeff(term) ==
    LET coeff_str == CoeffStr(term)
    IN  IF coeff_str = <<>> \/ coeff_str = <<"+">> THEN 1
        ELSE IF coeff_str = <<"-">> THEN -1
        ELSE IntValue(coeff_str)

\* Lines 83-96 with the sign of a variable term dropped.
ProcessTermUnsigned(f) ==
    IF Contains(f.term, "x")
    THEN [f EXCEPT !.x_coeff = f.x_coeff + Coeff(f.term)]
    ELSE IF f.term # <<>>
         THEN [f EXCEPT !.constant = f.constant + f.sign * IntValue(f.term)]
         ELSE f

\* Lines 83-96 with the constant assigned instead of accumulated.
ProcessTermAssign(f) ==
    IF Contains(f.term, "x")
    THEN [f EXCEPT !.x_coeff = f.x_coeff + f.sign * Coeff(f.term)]
    ELSE IF f.term # <<>>
         THEN [f EXCEPT !.constant = f.sign * IntValue(f.term)]
         ELSE f

\* Lines 83-96, where they do not raise: a term with an 'x' adds sign * coeff to
\* x_coeff, any other non-empty term adds sign * int(term) to constant, an empty
\* term adds nothing.
ProcessTermF(f) ==
    IF Contains(f.term, "x")
    THEN [f EXCEPT !.x_coeff = f.x_coeff + f.sign * Coeff(f.term)]
    ELSE IF f.term # <<>>
         THEN [f EXCEPT !.constant = f.constant + f.sign * IntValue(f.term)]
         ELSE f

\* What a call returns or raises: raised is "" for a normal return.
Returned(x_coeff, constant) ==
    [raised |-> "", x_coeff |-> x_coeff, constant |-> constant]
Raised(e) == [raised |-> e, x_coeff |-> 0, constant |-> 0]

RECURSIVE RunLoop(_, _)
\* The loops of lines 71-96 run to their end from frame f, at the head of the
\* outer loop (inTerm FALSE) or of the inner one (inTerm TRUE).
RunLoop(f, inTerm) ==
    IF inTerm
    THEN IF ScanGuard(f) THEN RunLoop(ScanCharF(f), TRUE)
         ELSE IF TermRaises(f.term) THEN Raised("ValueError")
         ELSE RunLoop(ProcessTermF(f), FALSE)
    ELSE IF LoopGuard(f) THEN RunLoop(ReadSignF(f), TRUE)
         ELSE Returned(f.x_coeff, f.constant)

\* parse_expression(arg) as one call: what it returns or raises.
parse_expression(arg) ==
    LET f == NewFrame(arg)
    IN  IF PrependRaises(f) THEN Raised("IndexError") ELSE RunLoop(PrependF(f), FALSE)

(***************************************************************************)
(* solve_equation.                                                         *)
(***************************************************************************)
\* Line 32: the unpacking into two names raises ValueError unless the split
\* gives exactly two pieces.
UnpackRaises(parts) == Len(parts) # 2

\* Line 40 with its operands exchanged.
ConstDiffSwapped(left_const, right_const) == left_const - right_const

\* Line 40: const_diff = right_const - left_const
ConstDiff(left_const, right_const) == right_const - left_const

\* Line 49: x_value = const_diff // x_coeff
XValue(x_coeff, const_diff) == FloorDiv(const_diff, x_coeff)

\* Lines 39-50: the returned string.
Classify(left_x_coeff, left_const, right_x_coeff, right_const) ==
    LET x_coeff == left_x_coeff - right_x_coeff
        const_diff == ConstDiff(left_const, right_const)
    IN  IF x_coeff = 0
        THEN IF const_diff = 0 THEN InfiniteSolutions ELSE NoSolution
        ELSE XEquals(XValue(x_coeff, const_diff))

\* solve_equation(equation) as one call: [raised, result].
solve_equation(equation) ==
    LET parts == Split(equation, "=")
    IN  IF UnpackRaises(parts) THEN [raised |-> "ValueError", result |-> <<>>]
        ELSE LET l == parse_expression(parts[1])
             IN  IF l.raised # "" THEN [raised |-> l.raised, result |-> <<>>]
                 ELSE LET r == parse_expression(parts[2])
                      IN  IF r.raised # "" THEN [raised |-> r.raised, result |-> <<>>]
                          ELSE [raised |-> "",
                                result |-> Classify(l.x_coeff, l.constant,
                                                    r.x_coeff, r.constant)]

(***************************************************************************)
(* The inputs.                                                             *)
(***************************************************************************)
\* test_cases of test_solve_equation: <<equation, expected>>.
TestCases ==
    {
      << <<"x", "+", "5", "-", "3", "+", "x", "=", "6", "+", "x", "-", "2">>,
         <<"x", "=", "2">> >>,
      << <<"x", "=", "x">>,
         <<"I", "n", "f", "i", "n", "i", "t", "e", " ", "s", "o", "l", "u", "t", "i", "o", "n", "s">> >>,
      << <<"2", "x", "=", "x">>,
         <<"x", "=", "0">> >>,
      << <<"2", "x", "+", "3", "=", "x", "+", "1">>,
         <<"x", "=", "-", "2">> >>,
      << <<"x", "+", "1", "=", "x", "+", "2">>,
         <<"N", "o", " ", "s", "o", "l", "u", "t", "i", "o", "n">> >>,
      << <<"3", "x", "-", "2", "=", "3", "x", "-", "2">>,
         <<"I", "n", "f", "i", "n", "i", "t", "e", " ", "s", "o", "l", "u", "t", "i", "o", "n", "s">> >>,
      << <<"x", "=", "5">>,
         <<"x", "=", "5">> >>,
      << <<"2", "x", "=", "8">>,
         <<"x", "=", "4">> >>
    }

\* Malformed inputs: adjacent signs, a trailing sign, a stray letter, two '='.
MalformedExamples ==
    {
      <<"x", "+", "+", "5", "=", "6">>,
      <<"x", "+", "-", "5", "=", "6">>,
      <<"x", "+", "=", "6">>,
      <<"x", "=", "2", "y">>,
      <<"x", "=", "6", "=", "6">>
    }

\* Every string over Alphabet of at most n characters.
AllStrings(n) == UNION {[1..k -> Alphabet] : k \in 0..n}

\* The signed terms the generated sides are made of: a bare variable, a variable
\* with a coefficient, a constant.
TermBodies == {<<"x">>, <<"2", "x">>, <<"3">>}
SignedTerms == {<<s>> \o b : s \in Signs, b \in TermBodies}

\* The sides of one to n signed terms, with the leading '+' written or left out.
SidesUpTo(n) ==
    LET full == {Join(ts) : ts \in UNION {[1..k -> SignedTerms] : k \in 1..n}}
    IN  full \cup {Tail(s) : s \in {t \in full : Head(t) = "+"}}

\* Well-formed equations: at most n terms on the left; one term on the right,
\* negative or with its '+' left out.
WellFormedEquations(n) ==
    {l \o <<"=">> \o r : l \in SidesUpTo(n), r \in {t \in SidesUpTo(1) : Head(t) # "+"}}

\* The inputs within the bounds len and n, with the literal ones.
EquationsWithin(len, n) ==
    AllStrings(len) \cup WellFormedEquations(n) \cup MalformedExamples
        \cup {t[1] : t \in TestCases}

Equations == EquationsWithin(MaxLen, MaxTerms)

\* The inputs of the runs checked for termination.
FairEquations == EquationsWithin(FairMaxLen, FairMaxTerms)

\* The inputs of two concurrent calls.
ConcEquations ==
    MalformedExamples \cup {t[1] : t \in TestCases}

(***************************************************************************)
(* The state: per call of solve_equation, its position and its locals.     *)
(***************************************************************************)
VARIABLES
    pc,             \* where the call is
    equation,       \* solve_equation's argument
    left, right,    \* line 32
    side,           \* which call of parse_expression is running: line 35 or 36
    frame,          \* parse_expression's locals
    left_x_coeff, left_const,   \* line 35
    right_x_coeff, right_const, \* line 36
    result,         \* the returned string
    exc             \* the exception the call ended with, "" if none

vars == <<pc, equation, left, right, side, frame, left_x_coeff, left_const,
          right_x_coeff, right_const, result, exc>>

\* A store to a variable every call shares.
AssignShared(var, c, v) == [d \in DOMAIN var |-> v]

\* A store to a local of call c: no other call's locals change.
Assign(var, c, v) == [var EXCEPT ![c] = v]

\* A frame not yet created.
NoFrame == [expr |-> <<>>, x_coeff |-> 0, constant |-> 0, i |-> 0, sign |-> 0, term |-> <<>>]

\* Before any step: nothing is bound but the arguments.
Start ==
    /\ left = [c \in Callers |-> <<>>]
    /\ right = [c \in Callers |-> <<>>]
    /\ side = [c \in Callers |-> ""]
    /\ frame = [c \in Callers |-> NoFrame]
    /\ left_x_coeff = [c \in Callers |-> 0]
    /\ left_const = [c \in Callers |-> 0]
    /\ right_x_coeff = [c \in Callers |-> 0]
    /\ right_const = [c \in Callers |-> 0]
    /\ result = [c \in Callers |-> <<>>]
    /\ exc = [c \in Callers |-> ""]

\* One call, on an input of eqs; the other caller makes none.
OneCall(eqs) ==
    /\ \E e \in eqs : equation = [c \in Callers |-> IF c = 1 THEN e ELSE <<>>]
    /\ pc = [c \in Callers |-> IF c = 1 THEN "split" ELSE "idle"]
    /\ Start

Init == OneCall(Equations)

InitFair == OneCall(FairEquations)

\* Two calls at once.
InitConc ==
    /\ equation \in [Callers -> ConcEquations]
    /\ pc = [c \in Callers |-> "split"]
    /\ Start

Raise(c, e) ==
    /\ pc' = Assign(pc, c, "raised")
    /\ exc' = Assign(exc, c, e)

\* Line 32: left, right = equation.split('=')
SplitEquation(c) ==
    /\ pc[c] = "split"
    /\ LET parts == Split(equation[c], "=")
       IN  \/ /\ UnpackRaises(parts)
              /\ Raise(c, "ValueError")
              /\ UNCHANGED <<left, right>>
           \/ /\ ~UnpackRaises(parts)
              /\ left' = Assign(left, c, parts[1])
              /\ right' = Assign(right, c, parts[2])
              /\ pc' = Assign(pc, c, "parse_left")
              /\ UNCHANGED exc
    /\ UNCHANGED <<equation, side, frame, left_x_coeff, left_const,
                   right_x_coeff, right_const, result>>

\* Line 35: parse_expression(left) is entered (lines 62-64).
CallParseLeft(c) ==
    /\ pc[c] = "parse_left"
    /\ frame' = Assign(frame, c, NewFrame(left[c]))
    /\ side' = Assign(side, c, "left")
    /\ pc' = Assign(pc, c, "prepend")
    /\ UNCHANGED <<equation, left, right, left_x_coeff, left_const,
                   right_x_coeff, right_const, result, exc>>

\* Line 36: parse_expression(right) is entered (lines 62-64).
CallParseRight(c) ==
    /\ pc[c] = "parse_right"
    /\ frame' = Assign(frame, c, NewFrame(right[c]))
    /\ side' = Assign(side, c, "right")
    /\ pc' = Assign(pc, c, "prepend")
    /\ UNCHANGED <<equation, left, right, left_x_coeff, left_const,
                   right_x_coeff, right_const, result, exc>>

\* Lines 67-70.
Prepend(c) ==
    /\ pc[c] = "prepend"
    /\ \/ /\ PrependRaises(frame[c])
          /\ Raise(c, "IndexError")
          /\ UNCHANGED frame
       \/ /\ ~PrependRaises(frame[c])
          /\ frame' = Assign(frame, c, PrependF(frame[c]))
          /\ pc' = Assign(pc, c, "loop")
          /\ UNCHANGED exc
    /\ UNCHANGED <<equation, left, right, side, left_x_coeff, left_const,
                   right_x_coeff, right_const, result>>

\* Lines 71-77: the outer loop is entered once more.
ReadSign(c) ==
    /\ pc[c] = "loop"
    /\ LoopGuard(frame[c])
    /\ frame' = Assign(frame, c, ReadSignF(frame[c]))
    /\ pc' = Assign(pc, c, "scan")
    /\ UNCHANGED <<equation, left, right, side, left_x_coeff, left_const,
                   right_x_coeff, right_const, result, exc>>

\* Lines 78-80: the inner loop's body.
ScanChar(c) ==
    /\ pc[c] = "scan"
    /\ ScanGuard(frame[c])
    /\ frame' = Assign(frame, c, ScanCharF(frame[c]))
    /\ UNCHANGED <<pc, equation, left, right, side, left_x_coeff, left_const,
                   right_x_coeff, right_const, result, exc>>

\* Lines 83-96: the inner loop is over and the term is processed.
ProcessTerm(c) ==
    /\ pc[c] = "scan"
    /\ ~ScanGuard(frame[c])
    /\ \/ /\ TermRaises(frame[c].term)
          /\ Raise(c, "ValueError")
          /\ UNCHANGED frame
       \/ /\ ~TermRaises(frame[c].term)
          /\ frame' = Assign(frame, c, ProcessTermF(frame[c]))
          /\ pc' = Assign(pc, c, "loop")
          /\ UNCHANGED exc
    /\ UNCHANGED <<equation, left, right, side, left_x_coeff, left_const,
                   right_x_coeff, right_const, result>>

\* Line 98 returning to line 35.
ReturnLeft(c) ==
    /\ pc[c] = "loop"
    /\ ~LoopGuard(frame[c])
    /\ side[c] = "left"
    /\ left_x_coeff' = Assign(left_x_coeff, c, frame[c].x_coeff)
    /\ left_const' = Assign(left_const, c, frame[c].constant)
    /\ pc' = Assign(pc, c, "parse_right")
    /\ UNCHANGED <<equation, left, right, side, frame, right_x_coeff, right_const,
                   result, exc>>

\* Line 98 returning to line 36.
ReturnRight(c) ==
    /\ pc[c] = "loop"
    /\ ~LoopGuard(frame[c])
    /\ side[c] = "right"
    /\ right_x_coeff' = Assign(right_x_coeff, c, frame[c].x_coeff)
    /\ right_const' = Assign(right_const, c, frame[c].constant)
    /\ pc' = Assign(pc, c, "classify")
    /\ UNCHANGED <<equation, left, right, side, frame, left_x_coeff, left_const,
                   result, exc>>

\* Lines 39-50.
Solve(c) ==
    /\ pc[c] = "classify"
    /\ result' = Assign(result, c, Classify(left_x_coeff[c], left_const[c],
                                            right_x_coeff[c], right_const[c]))
    /\ pc' = Assign(pc, c, "done")
    /\ UNCHANGED <<equation, left, right, side, frame, left_x_coeff, left_const,
                   right_x_coeff, right_const, exc>>

Step(c) ==
    \/ SplitEquation(c)
    \/ CallParseLeft(c)
    \/ CallParseRight(c)
    \/ Prepend(c)
    \/ ReadSign(c)
    \/ ScanChar(c)
    \/ ProcessTerm(c)
    \/ ReturnLeft(c)
    \/ ReturnRight(c)
    \/ Solve(c)

Next == \E c \in Callers : Step(c)

Spec == Init /\ [][Next]_vars

\* Python runs a call that has started to its end: a step that can be taken is taken.
FairSpec == InitFair /\ [][Next]_vars /\ WF_vars(Next)

SpecConc == InitConc /\ [][Next]_vars

(***************************************************************************)
(* What the properties speak of: the terms of an expression and their      *)
(* algebraic sums, stated on the text and not by scanning it.              *)
(***************************************************************************)
\* s with every character of the set drop left out.
Without(s, drop) == SelectSeq(s, LAMBDA ch : ch \notin drop)

\* An unsigned leading term counts as '+'.
Signed(s) == IF s # <<>> /\ s[1] \in Signs THEN s ELSE <<"+">> \o s

SignPositions(s) == {j \in 1..Len(s) : s[j] \in Signs}

\* The terms of a signed expression, in order: each sign with the characters up
\* to the next sign or the end.
TermsOf(s) ==
    LET P == SignPositions(s)
        pos(k) == CHOOSE p \in P : Cardinality({q \in P : q < p}) = k - 1
        stop(k) == IF k = Cardinality(P) THEN Len(s) ELSE pos(k + 1) - 1
    IN  [k \in 1..Cardinality(P) |-> [sign |-> s[pos(k)], body |-> SubSeq(s, pos(k) + 1, stop(k))]]

AllDigits(b) == \A j \in 1..Len(b) : b[j] \in Digits

\* A variable term's body: digits, possibly none, then the variable.
IsVariableTerm(b) == b # <<>> /\ b[Len(b)] = "x" /\ AllDigits(SubSeq(b, 1, Len(b) - 1))

\* A well-formed expression: one or more signed terms, the first sign optional,
\* each term digits or digits, possibly none, then the variable.  Character by
\* character: only digits, signs and 'x'; every sign is followed by a digit or
\* 'x'; every 'x' ends its term.
WellFormedExpr(s) ==
    /\ s # <<>>
    /\ \A j \in 1..Len(s) :
          /\ s[j] \in Digits \cup Signs \cup {"x"}
          /\ s[j] \in Signs => (j < Len(s) /\ s[j + 1] \notin Signs)
          /\ s[j] = "x" => (j = Len(s) \/ s[j + 1] \in Signs)

RECURSIVE Sum(_, _)
\* g[1] + ... + g[n]
Sum(g, n) == IF n = 0 THEN 0 ELSE Sum(g, n - 1) + g[n]

\* The number a string of digits denotes.
Denotes(ds) == Sum([j \in 1..Len(ds) |-> DigitValue(ds[j]) * 10 ^ (Len(ds) - j)], Len(ds))

\* The magnitude of a term: 1 for a bare variable.
Magnitude(b) ==
    IF b = <<"x">> THEN 1
    ELSE IF IsVariableTerm(b) THEN Denotes(SubSeq(b, 1, Len(b) - 1))
    ELSE Denotes(b)

SignValue(t) == IF t.sign = "+" THEN 1 ELSE -1

\* The sums of the first n terms' contributions: variable terms to the
\* coefficient, the others to the constant.
PartialForm(ts, n) ==
    [coefficient |-> Sum([k \in 1..n |-> IF IsVariableTerm(ts[k].body)
                                          THEN SignValue(ts[k]) * Magnitude(ts[k].body)
                                          ELSE 0], n),
     constant |-> Sum([k \in 1..n |-> IF IsVariableTerm(ts[k].body)
                                       THEN 0
                                       ELSE SignValue(ts[k]) * Magnitude(ts[k].body)], n)]

\* The linear form of a well-formed expression.
LinearForm(s) == LET ts == TermsOf(Signed(s)) IN PartialForm(ts, Len(ts))

CountEq(e) == Cardinality({j \in 1..Len(e) : e[j] = "="})
EqPos(e) == CHOOSE j \in 1..Len(e) : e[j] = "="
LeftOf(e) == SubSeq(e, 1, EqPos(e) - 1)
RightOf(e) == SubSeq(e, EqPos(e) + 1, Len(e))

\* A well-formed equation: one '=' between two well-formed expressions.
WellFormedEq(e) ==
    /\ CountEq(e) = 1
    /\ WellFormedExpr(LeftOf(e))
    /\ WellFormedExpr(RightOf(e))

\* The equation reduced to k * x = m.
K(e) == LinearForm(LeftOf(e)).coefficient - LinearForm(RightOf(e)).coefficient
M(e) == LinearForm(RightOf(e)).constant - LinearForm(LeftOf(e)).constant

Abs(n) == IF n < 0 THEN 0 - n ELSE n
Divides(k, m) == Abs(m) % Abs(k) = 0

\* v is the floor of m / k: v <= m / k < v + 1.
IsFloor(v, m, k) ==
    IF k > 0 THEN k * v <= m /\ m < k * v + k
    ELSE k * v >= m /\ m > k * v + k

\* d is the decimal numeral of v: a '-' exactly when v < 0, then the digits of
\* |v| with no leading zero.
IsNumeralOf(d, v) ==
    LET ds == IF d # <<>> /\ d[1] = "-" THEN Tail(d) ELSE d
    IN  /\ ds # <<>> /\ AllDigits(ds)
        /\ (d[1] = "-") = (v < 0)
        /\ Len(ds) > 1 => ds[1] # "0"
        /\ Denotes(ds) = Abs(v)

\* r is "x=" followed by the numeral of v.
IsXEquals(r, v) ==
    Len(r) > 2 /\ r[1] = "x" /\ r[2] = "=" /\ IsNumeralOf(SubSeq(r, 3, Len(r)), v)

\* The x a result "x=<integer>" names.
ReturnedX(r) ==
    LET d == SubSeq(r, 3, Len(r))
    IN  IF d[1] = "-" THEN 0 - Denotes(Tail(d)) ELSE Denotes(d)

\* One of the three outcome kinds.
IsOutcome(r) ==
    \/ r = InfiniteSolutions
    \/ r = NoSolution
    \/ Len(r) > 2 /\ IsXEquals(r, ReturnedX(r))

\* What the classification asks of the result r of a well-formed equation e.
IsExpected(r, e) ==
    LET k == K(e)
        m == M(e)
    IN  /\ r = InfiniteSolutions <=> (k = 0 /\ m = 0)
        /\ r = NoSolution <=> (k = 0 /\ m # 0)
        /\ k # 0 => \E v \in (0 - Abs(m) - 1)..(Abs(m) + 1) : IsFloor(v, m, k) /\ IsXEquals(r, v)

Ended(c) == pc[c] \in {"done", "raised"}

\* parse_expression(left) has just returned to line 35, parse_expression(right)
\* to line 36; what it returned is in left_x_coeff, left_const (right_...).
LeftReturned(c) == pc[c] = "parse_right"
RightReturned(c) == pc[c] = "classify"

(***************************************************************************)
(* The properties.                                                         *)
(***************************************************************************)
\* C1: a well-formed equation reducing to k*x = m never raises and returns
\* "Infinite solutions" iff k = 0 and m = 0, "No solution" iff k = 0 and m # 0,
\* and otherwise "x=v" with v the floor of m / k; the eight scenarios of the
\* bundled test return their listed outputs.
C1_Classification ==
    \A c \in Callers :
        /\ (Ended(c) /\ WellFormedEq(equation[c])) =>
              /\ pc[c] = "done"
              /\ IsExpected(result[c], equation[c])
        /\ \A t \in TestCases :
              (equation[c] = t[1] /\ Ended(c)) => (pc[c] = "done" /\ result[c] = t[2])

\* A well-formed equation with k > 0, m < 0 and m / k inexact has returned.
C1_Witness ==
    /\ pc[1] = "done"
    /\ WellFormedEq(equation[1])
    /\ K(equation[1]) > 0 /\ M(equation[1]) < 0
    /\ ~Divides(K(equation[1]), M(equation[1]))

\* C2 as claimed: for k # 0 of either sign the returned x satisfies
\* k*x <= m < k*x + |k| when k does not divide m, and k*x = m when it does.
C2_AsClaimed ==
    \A c \in Callers :
        (pc[c] = "done" /\ WellFormedEq(equation[c]) /\ K(equation[c]) # 0) =>
            LET k == K(equation[c])
                m == M(equation[c])
                x == ReturnedX(result[c])
            IN  IF Divides(k, m) THEN k * x = m
                ELSE k * x <= m /\ m < k * x + Abs(k)

\* C2 amended: the returned x satisfies k*x = m when k divides m; otherwise
\* k*x <= m < k*x + |k| when k > 0, and k*x - |k| < m <= k*x when k < 0.
C2_FloorContract ==
    \A c \in Callers :
        (pc[c] = "done" /\ WellFormedEq(equation[c]) /\ K(equation[c]) # 0) =>
            LET k == K(equation[c])
                m == M(equation[c])
                x == ReturnedX(result[c])
            IN  IF Divides(k, m) THEN k * x = m
                ELSE IF k > 0 THEN k * x <= m /\ m < k * x + Abs(k)
                ELSE k * x - Abs(k) < m /\ m <= k * x

\* A well-formed equation with k < 0, m > 0 and m / k inexact has returned.
C2_Witness ==
    /\ pc[1] = "done"
    /\ WellFormedEq(equation[1])
    /\ K(equation[1]) < 0 /\ M(equation[1]) > 0
    /\ ~Divides(K(equation[1]), M(equation[1]))

\* C3: an input with no '=' or with two or more ends, at its first step, in
\* ValueError; it returns no result and neither side is parsed.
C3_MalformedEquationRejected ==
    \A c \in Callers :
        (CountEq(equation[c]) # 1 /\ pc[c] \notin {"idle", "split"}) =>
            /\ pc[c] = "raised" /\ exc[c] = "ValueError"
            /\ result[c] = <<>>
            /\ side[c] = "" /\ frame[c] = NoFrame

\* An input with two or more '=' has been rejected.
C3_Witness == pc[1] = "raised" /\ CountEq(equation[1]) >= 2

\* C4 as claimed: parse_expression returns normally only for a side that,
\* whitespace aside, is a sequence of well-formed signed terms; any other side
\* ends in an exception.
C4_MalformedSideRaises ==
    \A c \in Callers :
        /\ LeftReturned(c) => WellFormedExpr(Without(left[c], Whitespace))
        /\ RightReturned(c) => WellFormedExpr(Without(right[c], Whitespace))

\* Every rendering of the terms ts in the order p, the leading '+' written or not.
Renderings(ts, p) ==
    LET full == Join([k \in 1..Len(ts) |-> <<ts[p[k]].sign>> \o ts[p[k]].body])
    IN  {full} \cup (IF Head(full) = "+" THEN {Tail(full)} ELSE {})

Orderings(n) == {p \in [1..n -> 1..n] : \A a, b \in 1..n : p[a] = p[b] => a = b}

\* Every reordering of the signed terms of s parses to the pair (x_coeff, constant).
ReorderingsParseTo(s, x_coeff, constant) ==
    LET ts == TermsOf(Signed(s))
    IN  \A p \in Orderings(Len(ts)) :
            \A r \in Renderings(ts, p) : parse_expression(r) = Returned(x_coeff, constant)

\* C5: when parse_expression has returned for a well-formed side, it returns
\* the same pair for every permutation of the side's signed terms.
C5_ReorderingInvariance ==
    \A c \in Callers :
        /\ (LeftReturned(c) /\ WellFormedExpr(left[c])) =>
              ReorderingsParseTo(left[c], left_x_coeff[c], left_const[c])
        /\ (RightReturned(c) /\ WellFormedExpr(right[c])) =>
              ReorderingsParseTo(right[c], right_x_coeff[c], right_const[c])

\* "x+5-3+x" has been parsed to (2, 2).
C5_Witness ==
    /\ pc[1] = "parse_right"
    /\ left[1] = <<"x", "+", "5", "-", "3", "+", "x">>
    /\ left_x_coeff[1] = 2 /\ left_const[1] = 2

\* C6: every outer iteration moves i strictly forward, i never moves back or
\* past the end during a parse, and a call on a well-formed equation ends by
\* returning one of the three outcome kinds.
C6_Termination ==
    /\ [][\A c \in Callers :
            /\ (pc[c] = "loop" /\ pc'[c] = "scan") => frame'[c].i > frame[c].i
            /\ (pc[c] \in {"loop", "scan"} /\ pc'[c] \in {"loop", "scan"}) =>
                  /\ frame'[c].i >= frame[c].i
                  /\ frame'[c].i <= Len(frame'[c].expr)]_vars
    /\ \A c \in Callers :
          (pc[c] = "split" /\ WellFormedEq(equation[c]))
              ~> (pc[c] = "done" /\ IsOutcome(result[c]))

\* A well-formed equation has returned "No solution".
C6_Witness ==
    /\ pc[1] = "done"
    /\ WellFormedEq(equation[1])
    /\ result[1] = NoSolution

\* The locals of call c.
Locals(c) ==
    <<pc[c], equation[c], left[c], right[c], side[c], frame[c], left_x_coeff[c],
      left_const[c], right_x_coeff[c], right_const[c], result[c], exc[c]>>

\* C7: with the steps of two calls interleaved, a step changes the locals of
\* one call only, and each call ends as it does when run alone on its input.
C7_Independence ==
    /\ [][\E c \in Callers : \A d \in Callers \ {c} : Locals(d)' = Locals(d)]_vars
    /\ [](\A c \in Callers :
            Ended(c) =>
                /\ result[c] = solve_equation(equation[c]).result
                /\ exc[c] = solve_equation(equation[c]).raised)

\* Two calls on different inputs have both returned, with different results.
C7_Witness ==
    /\ pc[1] = "done" /\ pc[2] = "done"
    /\ equation[1] # equation[2]
    /\ result[1] # result[2]

\* The argument of the running call of parse_expression.
Arg(c) == IF side[c] = "left" THEN left[c] ELSE right[c]

\* The terms scanned when the index is i: the signs before it.
Scanned(expr, i) == Cardinality({j \in SignPositions(expr) : j <= i})

\* C8: for a well-formed side, at the head of the outer loop the accumulators
\* are the algebraic sums of the contributions of the terms scanned so far, a
\* term contributing to one of them only; the returned pair is the sums over
\* all terms.
C8_AlgebraicSums ==
    \A c \in Callers :
        /\ (pc[c] = "loop" /\ WellFormedExpr(Arg(c))) =>
              LET ts == TermsOf(Signed(Arg(c)))
                  sofar == PartialForm(ts, Scanned(frame[c].expr, frame[c].i))
              IN  /\ frame[c].expr = Signed(Arg(c))
                  /\ frame[c].x_coeff = sofar.coefficient
                  /\ frame[c].constant = sofar.constant
        /\ (LeftReturned(c) /\ WellFormedExpr(left[c])) =>
              /\ left_x_coeff[c] = LinearForm(left[c]).coefficient
              /\ left_const[c] = LinearForm(left[c]).constant
        /\ (RightReturned(c) /\ WellFormedExpr(right[c])) =>
              /\ right_x_coeff[c] = LinearForm(right[c]).coefficient
              /\ right_const[c] = LinearForm(right[c]).constant

\* The loop is between two terms of a well-formed side, both sums non-zero.
C8_Witness ==
    /\ pc[1] = "loop"
    /\ WellFormedExpr(Arg(1))
    /\ LoopGuard(frame[1])
    /\ frame[1].x_coeff # 0 /\ frame[1].constant # 0

\* With the characters of drop inserted anywhere in a well-formed expression,
\* the parse does not raise and returns the expression's linear form.
Ignores(drop) ==
    \A c \in Callers :
        /\ (pc[c] = "raised" /\ side[c] = "left") => ~WellFormedExpr(Without(left[c], drop))
        /\ (LeftReturned(c) /\ WellFormedExpr(Without(left[c], drop))) =>
              /\ left_x_coeff[c] = LinearForm(Without(left[c], drop)).coefficient
              /\ left_const[c] = LinearForm(Without(left[c], drop)).constant
        /\ (pc[c] = "raised" /\ side[c] = "right") => ~WellFormedExpr(Without(right[c], drop))
        /\ (RightReturned(c) /\ WellFormedExpr(Without(right[c], drop))) =>
              /\ right_x_coeff[c] = LinearForm(Without(right[c], drop)).coefficient
              /\ right_const[c] = LinearForm(Without(right[c], drop)).constant

\* C9 as claimed: whitespace of any kind (here spaces and tabs) inserted
\* anywhere in a well-formed expression changes nothing and causes no failure.
C9_AsClaimed == Ignores(Whitespace)

\* C9 amended: parse_expression removes all space characters before scanning;
\* spaces inserted anywhere in a well-formed expression change nothing and
\* cause no failure.
C9_SpacesIgnored == Ignores({" "})

\* "2 x", a space next to the variable, has been parsed.
C9_Witness ==
    /\ pc[1] = "parse_right"
    /\ left[1] = <<"2", " ", "x">>
    /\ left_x_coeff[1] = 2

\* C10: at the head of every outer iteration expr[i] is '+' or '-', a collected
\* term holds neither, and so the coefficient string of a variable term is
\* never a lone '+' or '-'.
C10_SignAtLoopHead ==
    \A c \in Callers :
        /\ (pc[c] = "loop" /\ LoopGuard(frame[c])) =>
              frame[c].expr[frame[c].i + 1] \in Signs
        /\ pc[c] = "scan" =>
              /\ \A j \in 1..Len(frame[c].term) : frame[c].term[j] \notin Signs
              /\ (~ScanGuard(frame[c]) /\ Contains(frame[c].term, "x")) =>
                    CoeffStr(frame[c].term) \notin {<<"+">>, <<"-">>}

\* A later iteration is about to read a '-'.
C10_Witness ==
    /\ pc[1] = "loop"
    /\ frame[1].i > 0
    /\ LoopGuard(frame[1])
    /\ frame[1].expr[frame[1].i + 1] = "-"

=============================================================================
